---- MODULE Spec2Model ----
(***************************************************************************)
(* TextReader (src/src/lib.rs): a chunked reader that decodes a byte       *)
(* stream of a legacy encoding into UTF-8 text.  The model follows         *)
(* _read, read_to_end, read_line and Lines::next statement by statement.   *)
(* Strings are sequences of UTF-8 bytes, so that every len(), slice and    *)
(* memchr of the source is a length, SubSeq and search over bytes.         *)
(***************************************************************************)
EXTENDS Integers, Sequences, FiniteSets, TLC

\* ------------------------------------------------------------------ bounds
\* Longest input the byte source holds.
MaxLen == 4
\* Most public calls (read_line, read_to_end, Lines::next) in one run.
MaxCalls == 4
\* Most read attempts the byte source fails in one run.
MaxIoErr == 1
\* Longest input of the runs in which the byte source fails read attempts.
MaxFaultyLen == 2
\* Longest input of the runs in which the byte source returns short reads.
MaxSplitLen == 3
\* Longest input of the runs in which the Lines iterator is advanced for ever.
MaxLinesLen == 2
\* lib.rs:46 sets CHUNK_SIZE to 2048; the model scales the chunk down so
\* that inputs of a few bytes fill it, overflow it and straddle its end.
CHUNK_SIZE == 3

\* ------------------------------------------------------------------- bytes
\* Input bytes, named after the Shift_JIS bytes of the tests (lib.rs:337):
\* 0x82 leads a two-byte character, 0xA0 is its second byte, and 0xA0 in
\* first position is not a character.  NUL is the fill of Vec::resize.
NUL == 0
LF == 10
CR == 13
LetterA == 65
Lead == 130
Trail == 160

InputBytes == {LetterA, LF, CR, Lead, Trail}

\* UTF-8 of the character 0x82 0xA0 decodes to (U+3042) and of U+FFFD.
Hiragana == <<227, 129, 130>>

\* The second bytes of the five characters of the tests (lib.rs:337) and the
\* UTF-8 of the character 0x82 b: U+3042, U+3044, U+3046, U+3048, U+304A.
TrailBytes == {160, 162, 164, 166, 168}
Kana(b) == <<227, 129, b - 30>>
Replacement == <<239, 191, 189>>

ERR_INCOMPLETE_SEQ == "incomplete sequence"
ERR_INVALID_SEQ == "invalid sequence"

Min(a, b) == IF a < b THEN a ELSE b

\* v[k..] of Rust: the bytes after the first k.
DropFront(v, k) == SubSeq(v, k + 1, Len(v))

\* ----------------------------------------------------------------- results
\* Result<T> of lib.rs:44, with one more tag for a panic of the thread.
Ok(n, flag) == [tag |-> "Ok", n |-> n, flag |-> flag, msg |-> ""]
ErrIO(kind) == [tag |-> "IOError", n |-> 0, flag |-> FALSE, msg |-> kind]
ErrCodec(cause) == [tag |-> "CodecError", n |-> 0, flag |-> FALSE, msg |-> cause]
Panic == [tag |-> "Panic", n |-> 0, flag |-> FALSE, msg |-> ""]

\* ----------------------------------------------------------------- decoder
\* Option<CodecError> of the decoder: upto and cause.
NoErr == [some |-> FALSE, upto |-> 0, cause |-> ""]
SomeErr(upto, cause) == [some |-> TRUE, upto |-> upto, cause |-> cause]

\* RawDecoder::raw_feed over inp from its i-th byte: characters are pushed
\* to out as they complete, processed is the offset of the first byte not
\* yet turned into a character, and the first byte sequence that is no
\* character stops the feed with the error range ending at upto.  A lead
\* byte at the end of inp stays in the decoder state (S1).
RECURSIVE feed_from(_, _, _, _, _)
feed_from(state, inp, i, processed, out) ==
    IF i > Len(inp)
    THEN [st |-> state, offset |-> processed, out |-> out, err |-> NoErr]
    ELSE IF state = "S1"
    THEN IF inp[i] \in TrailBytes
         THEN feed_from("S0", inp, i + 1, i, out \o Kana(inp[i]))
         ELSE [st |-> "S0", offset |-> processed, out |-> out,
               err |-> SomeErr(i - 1, ERR_INVALID_SEQ)]
    ELSE IF inp[i] < 128
    THEN feed_from("S0", inp, i + 1, i, out \o <<inp[i]>>)
    ELSE IF inp[i] = Lead
    THEN feed_from("S1", inp, i + 1, processed, out)
    ELSE [st |-> "S0", offset |-> processed, out |-> out,
          err |-> SomeErr(i, ERR_INVALID_SEQ)]

raw_feed(state, inp, out) == feed_from(state, inp, 1, 0, out)

\* RawDecoder::raw_finish: resets the decoder; a held lead byte is reported
\* as an incomplete sequence.
raw_finish(state) ==
    [st |-> "S0",
     err |-> IF state = "S1" THEN SomeErr(0, ERR_INCOMPLETE_SEQ) ELSE NoErr]

\* DecoderTrap::trap: Strict declines, Replace pushes U+FFFD, Ignore skips.
Traps == {"Strict", "Replace", "Ignore"}
trap_ok(trap) == trap # "Strict"
trap_out(trap, out) == IF trap = "Replace" THEN out \o Replacement ELSE out

\* ------------------------------------------------------------- byte source
\* What one bufreader.read returns: Ok(n) or an io::Error of some kind.
ReadOk(n) == [tag |-> "Ok", n |-> n, msg |-> ""]
ReadErr(kind) == [tag |-> "Err", n |-> 0, msg |-> kind]
IoErrorKinds == {"Interrupted", "UnexpectedEof", "Other"}

\* ------------------------------------------------------------------- _read
\* The reader's fields as one record (struct TextReader, lib.rs:50-57; pos
\* is how far the byte source has been read).
Reader(tb, tc, bb, ds, p) ==
    [textbuf |-> tb, textbuf_completeseq |-> tc, binbuf |-> bb, st |-> ds, pos |-> p]

\* One invocation of the trap by a step (lib.rs:159): the slice it was
\* given, the buffer that had been fed to the decoder, the decoder's
\* consumed count and upto, and the chunk buffer the step left.
NoTrapCall ==
    [some |-> FALSE, arg |-> << >>, fed |-> << >>, offset |-> 0, upto |-> 0,
     recovered |-> FALSE, left |-> << >>]
TrapCall(arg, fed, offset, upto, recovered, left) ==
    [some |-> TRUE, arg |-> arg, fed |-> fed, offset |-> offset, upto |-> upto,
     recovered |-> recovered, left |-> left]

\* What a step hands back: the reader after it, the caller's string after
\* it, the Result<bool> (or the panic) and its invocation of the trap.
Step(r, s, res) == [r |-> r, s |-> s, res |-> res, trapcall |-> NoTrapCall]

\* Mutant of read_finish: an incomplete sequence at the end of the chunk is
\* reported as a complete one.
read_finish_complete(r, s, trap, offset) ==
    LET fin == raw_finish(r.st)
        r1 == [r EXCEPT !.st = fin.st]
    IN  IF ~fin.err.some THEN Step(r1, s, Ok(0, TRUE))
        ELSE IF fin.err.cause = ERR_INCOMPLETE_SEQ THEN Step(r1, s, Ok(0, TRUE))
        ELSE IF fin.err.upto < 0 \/ fin.err.upto > Len(r1.binbuf) THEN Step(r1, s, Panic)
        ELSE IF trap_ok(trap) THEN Step(r1, trap_out(trap, s), Ok(0, TRUE))
        ELSE IF fin.err.upto > 0
        THEN IF fin.err.upto < offset \/ fin.err.upto - offset > Len(r1.binbuf)
             THEN Step(r1, s, Panic)
             ELSE Step([r1 EXCEPT !.binbuf = DropFront(r1.binbuf, fin.err.upto - offset)],
                       s, ErrCodec(fin.err.cause))
        ELSE Step(r1, s, ErrCodec(fin.err.cause))

\* lib.rs:166-179: the decoder is finished against what the feed left.
read_finish(r, s, trap, offset) ==
    LET fin == raw_finish(r.st)
        r1 == [r EXCEPT !.st = fin.st]
    IN  IF ~fin.err.some THEN Step(r1, s, Ok(0, TRUE))
        ELSE IF fin.err.cause = ERR_INCOMPLETE_SEQ THEN Step(r1, s, Ok(0, FALSE))
        ELSE IF fin.err.upto < 0 \/ fin.err.upto > Len(r1.binbuf) THEN Step(r1, s, Panic)
        ELSE IF trap_ok(trap) THEN Step(r1, trap_out(trap, s), Ok(0, TRUE))
        ELSE IF fin.err.upto > 0
        THEN IF fin.err.upto < offset \/ fin.err.upto - offset > Len(r1.binbuf)
             THEN Step(r1, s, Panic)
             ELSE Step([r1 EXCEPT !.binbuf = DropFront(r1.binbuf, fin.err.upto - offset)],
                       s, ErrCodec(fin.err.cause))
        ELSE Step(r1, s, ErrCodec(fin.err.cause))

\* Mutant of drop_consumed: the buffer is cleared whenever bytes were
\* consumed, also when a lead byte is left unconsumed at its end.
drop_consumed_all(binbuf, offset) ==
    IF offset > 0 THEN << >> ELSE binbuf

\* Mutant of drop_consumed: one byte more than the decoder consumed is
\* dropped.
drop_consumed_one_more(binbuf, offset) ==
    IF offset > 0
    THEN IF offset < Len(binbuf) THEN DropFront(binbuf, offset + 1) ELSE << >>
    ELSE binbuf

\* lib.rs:149-156: the bytes the decoder consumed leave the chunk buffer.
drop_consumed(binbuf, offset) ==
    IF offset > 0
    THEN IF offset < Len(binbuf) THEN DropFront(binbuf, offset) ELSE << >>
    ELSE binbuf

\* lib.rs:159: &self.binbuf[..e.upto as usize], the bytes handed to the trap.
trap_slice(binbuf, upto) == SubSeq(binbuf, 1, upto)

\* lib.rs:147-165: the whole chunk buffer is fed, the consumed bytes are
\* dropped, and an error range goes to the trap.
read_feed(r, s, trap) ==
    LET f == raw_feed(r.st, r.binbuf, s)
        shifted == drop_consumed(r.binbuf, f.offset)
        r1 == [r EXCEPT !.st = f.st, !.binbuf = shifted]
    IN  IF ~f.err.some THEN read_finish(r1, f.out, trap, f.offset)
        ELSE IF f.err.upto < f.offset THEN Step(r1, f.out, Panic)
        ELSE IF f.err.upto > Len(shifted) THEN Step(r1, f.out, Panic)
        ELSE IF ~trap_ok(trap) THEN Step(r1, f.out, ErrCodec(f.err.cause))
        ELSE read_finish(
                 IF f.err.upto - f.offset > 0
                 THEN [r1 EXCEPT !.binbuf = DropFront(shifted, f.err.upto - f.offset)]
                 ELSE r1,
                 trap_out(trap, f.out), trap, f.offset)

\* The trap invocation of lib.rs:159 in a step that feeds r.binbuf and ends
\* as x: none when the feed reports no error or the slice panics.
trap_call(r, x) ==
    LET f == raw_feed(r.st, r.binbuf, << >>)
        shifted == drop_consumed(r.binbuf, f.offset)
    IN  IF f.err.some /\ f.err.upto >= f.offset /\ f.err.upto <= Len(shifted)
        THEN TrapCall(trap_slice(shifted, f.err.upto), r.binbuf, f.offset, f.err.upto,
                      x.res.tag = "Ok", x.r.binbuf)
        ELSE NoTrapCall

\* lib.rs:147-165 with the trap invocation on record.
read_feed_traced(r, s, trap) ==
    [read_feed(r, s, trap) EXCEPT !.trapcall = trap_call(r, read_feed(r, s, trap))]

\* lib.rs:140-146: one read tops the chunk buffer up to CHUNK_SIZE.  The
\* buffer is resized (filled with NUL) before the read and truncated after
\* it; a failed read returns at the ? and leaves the resized buffer.
Padded(binbuf) == binbuf \o [k \in 1..(CHUNK_SIZE - Len(binbuf)) |-> NUL]

read_fill(r, s, trap, input, rd) ==
    IF Len(r.binbuf) < CHUNK_SIZE
    THEN IF rd.tag = "Err"
         THEN Step([r EXCEPT !.binbuf = Padded(r.binbuf)], s, ErrIO(rd.msg))
         ELSE read_feed_traced(
                  [r EXCEPT !.binbuf = r.binbuf \o SubSeq(input, r.pos + 1, r.pos + rd.n),
                            !.pos = r.pos + rd.n],
                  s, trap)
    ELSE read_feed_traced(r, s, trap)

\* Mutant of read_pending: the pending text is cleared without being handed out.
read_pending_lost(r, s) ==
    Step([r EXCEPT !.textbuf = << >>, !.textbuf_completeseq = TRUE],
         s, Ok(0, r.textbuf_completeseq))

\* lib.rs:133-139: text held back by read_line is handed out first.
read_pending(r, s) ==
    Step([r EXCEPT !.textbuf = << >>, !.textbuf_completeseq = TRUE],
         s \o r.textbuf, Ok(0, r.textbuf_completeseq))

\* Mutant of _read: the step goes on to read and decode after handing out
\* the pending text.
_read_no_early_return(r, s, trap, input, rd) ==
    IF Len(r.textbuf) > 0
    THEN read_fill(read_pending(r, s).r, read_pending(r, s).s, trap, input, rd)
    ELSE read_fill(r, s, trap, input, rd)

\* lib.rs:132-180.
_read(r, s, trap, input, rd) ==
    IF Len(r.textbuf) > 0
    THEN read_pending(r, s)
    ELSE read_fill(r, s, trap, input, rd)

\* Whether this step asks the byte source at all (lib.rs:133, 140).
Reads(r) == Len(r.textbuf) = 0 /\ Len(r.binbuf) < CHUNK_SIZE

\* No step has run yet.
NoResult == [tag |-> "None", n |-> 0, flag |-> TRUE, msg |-> ""]

\* ------------------------------------------------------------------- state
VARIABLES
    input,                \* the bytes the byte source holds
    mayShort,             \* the source may return fewer bytes than it has
    mayFail,              \* the source may fail a read attempt
    trap,                 \* TextReader.trap
    pos,                  \* bytes the source has returned so far
    eof,                  \* the source has returned Ok(0)
    iofails,              \* the kinds of the read attempts failed so far
    binbuf,               \* TextReader.binbuf
    textbuf,              \* TextReader.textbuf
    textbuf_completeseq,  \* TextReader.textbuf_completeseq
    decoder,              \* state of TextReader.decoder
    trapcall,             \* the last invocation of the trap
    result,               \* what the last step returned (result of read_line)
    drained,              \* the pending text the last step handed out
    buf,                  \* the caller's String (s of Lines::next)
    entry,                \* buf as it was when the running call was entered
    pc,                   \* "idle", "read_to_end", "read_line" or "panicked"
    caller,               \* who runs read_line: "direct" or "lines"
    nstrlen,              \* local of read_to_end and read_line
    lastlen,              \* local of read_to_end and read_line
    calls                 \* the finished calls: operation, result, text appended

vars == <<input, mayShort, mayFail, trap, pos, eof, iofails, binbuf, textbuf,
          textbuf_completeseq, decoder, trapcall, result, drained, buf, entry, pc, caller, nstrlen, lastlen, calls>>

srcvars == <<input, mayShort, mayFail, trap>>
readervars == <<pos, eof, iofails, binbuf, textbuf, textbuf_completeseq, decoder, trapcall,
                result, drained>>

\* All byte sequences of at most n bytes.
RECURSIVE SeqsUpTo(_)
SeqsUpTo(n) ==
    IF n = 0 THEN {<< >>}
    ELSE LET shorter == SeqsUpTo(n - 1)
         IN  shorter \cup {Append(v, b) : v \in {w \in shorter : Len(w) = n - 1}, b \in InputBytes}

Inputs == SeqsUpTo(MaxLen)

\* TextReader::from_bufreader, lib.rs:99-108.
InitReader ==
    /\ pos = 0
    /\ eof = FALSE
    /\ iofails = << >>
    /\ binbuf = << >>
    /\ textbuf = << >>
    /\ textbuf_completeseq = TRUE
    /\ decoder = "S0"
    /\ trapcall = NoTrapCall
    /\ result = NoResult
    /\ drained = << >>
    /\ buf = << >>
    /\ entry = << >>
    /\ pc = "idle"
    /\ caller = "direct"
    /\ nstrlen = 0
    /\ lastlen = 0
    /\ calls = << >>

\* A source that fills every request and never fails.
InitFill ==
    /\ input \in Inputs
    /\ mayShort = FALSE
    /\ mayFail = FALSE
    /\ trap \in Traps
    /\ InitReader

\* A source that may return short reads and never fails.
InitSplit ==
    /\ input \in SeqsUpTo(MaxSplitLen)
    /\ mayShort = TRUE
    /\ mayFail = FALSE
    /\ trap \in Traps
    /\ InitReader

\* A source that fills every request and may fail read attempts.
InitFaulty ==
    /\ input \in SeqsUpTo(MaxFaultyLen)
    /\ mayShort = FALSE
    /\ mayFail = TRUE
    /\ trap \in Traps
    /\ InitReader

\* The input of tests::read_to_end_shortstring (lib.rs:337), from a source
\* that fills every request.
sjis_aiueo == <<130, 160, 130, 162, 130, 164, 130, 166, 130, 168>>

InitAiueo ==
    /\ input = sjis_aiueo
    /\ mayShort = FALSE
    /\ mayFail = FALSE
    /\ trap \in Traps
    /\ InitReader

\* ------------------------------------------------------------- byte source
\* The results the next bufreader.read may give for a request of
\* CHUNK_SIZE - binbuf.len() bytes (lib.rs:143).  A step that does not read
\* has the one dummy outcome.
Outcomes ==
    IF ~Reads(Reader(textbuf, textbuf_completeseq, binbuf, decoder, pos))
    THEN {ReadOk(0)}
    ELSE LET m == Min(CHUNK_SIZE - Len(binbuf), Len(input) - pos)
         IN  (IF m = 0 THEN {ReadOk(0)}
              ELSE {ReadOk(n) : n \in IF mayShort THEN 1..m ELSE {m}})
             \cup
             (IF mayFail /\ Len(iofails) < MaxIoErr
              THEN {ReadErr(k) : k \in IoErrorKinds}
              ELSE {})

\* One _read on the current state with read outcome rd.
DoRead(rd) ==
    _read(Reader(textbuf, textbuf_completeseq, binbuf, decoder, pos), buf, trap, input, rd)

\* The bookkeeping of the byte source for a step with outcome rd.
SourceAfter(rd) ==
    LET reads == Reads(Reader(textbuf, textbuf_completeseq, binbuf, decoder, pos))
    IN  /\ eof' = (eof \/ (reads /\ rd.tag = "Ok" /\ rd.n = 0))
        /\ iofails' = IF reads /\ rd.tag = "Err" THEN Append(iofails, rd.msg) ELSE iofails

\* The record of the trap invocation after a step that ended as x.
TrapAfter(x) == trapcall' = IF x.trapcall.some THEN x.trapcall ELSE trapcall

\* let result = self._read(buf) (lib.rs:250, and the match of lib.rs:207):
\* what the step returned, and the pending text it appended (lib.rs:134).
ResultAfter(x) ==
    /\ result' = x.res
    /\ drained' = IF Len(textbuf) > 0 THEN DropFront(x.s, Len(buf)) ELSE << >>

\* ------------------------------------------------------------ Lines::next
\* lib.rs:309-320: what the iterator makes of read_line's string.
ends_with(s, b) == Len(s) > 0 /\ s[Len(s)] = b
pop(s) == SubSeq(s, 1, Len(s) - 1)

\* Mutant of strip_line: a trailing carriage return is removed also when no
\* line feed follows it.
strip_line_any_cr(s) ==
    IF ends_with(s, LF)
    THEN IF ends_with(pop(s), CR) THEN pop(pop(s)) ELSE pop(s)
    ELSE IF ends_with(s, CR) THEN pop(s) ELSE s

strip_line(s) ==
    IF ends_with(s, LF)
    THEN IF ends_with(pop(s), CR) THEN pop(pop(s)) ELSE pop(s)
    ELSE s

NoItem == [tag |-> "NotLines", text |-> << >>]

\* Mutant of lines_item: the text is tested for emptiness after the
\* terminator is removed, so that a blank line ends the iteration.
lines_item_blank_ends(res, s) ==
    IF res.tag = "Ok"
    THEN IF Len(strip_line(s)) > 0
         THEN [tag |-> "SomeOk", text |-> strip_line(s)]
         ELSE [tag |-> "None", text |-> << >>]
    ELSE [tag |-> "SomeErr", text |-> << >>]

lines_item(res, s) ==
    IF res.tag = "Ok"
    THEN IF Len(s) > 0
         THEN [tag |-> "SomeOk", text |-> strip_line(s)]
         ELSE [tag |-> "None", text |-> << >>]
    ELSE [tag |-> "SomeErr", text |-> << >>]

\* memchr(b, v): the 0-based index of the first b in v, -1 for None.
memchr(b, v) ==
    IF \E i \in 1..Len(v) : v[i] = b
    THEN (CHOOSE i \in 1..Len(v) : v[i] = b /\ \A j \in 1..(i - 1) : v[j] # b) - 1
    ELSE -1

\* lib.rs:256-259: the flag stored with the text read_line holds back.
pending_flag(res) == res.tag = "CodecError" /\ res.msg = ERR_INCOMPLETE_SEQ

\* Mutant of byte_count: the length of the whole string is returned.
byte_count_total(len, start) == len

\* lib.rs:213, 262, 274, 282: the count a successful call returns.
byte_count(len, start) == len - start

\* Mutant of line_end: the line feed itself is left out of the line.
line_end_before_lf(last, n) == last + n

\* lib.rs:254, 260, 262: where the line ends in the caller's string.
line_end(last, n) == last + n + 1

\* ----------------------------------------------------------------- actions
\* A call returns res with the caller's string s: the call is recorded.
Finished(op, res, s) ==
    [op |-> op, res |-> res, text |-> DropFront(s, nstrlen),
     item |-> IF op = "next" THEN lines_item(res, s) ELSE NoItem]

Return(op, res, s) ==
    /\ pc' = IF res.tag = "Panic" THEN "panicked" ELSE "idle"
    /\ calls' = Append(calls, Finished(op, res, s))
    /\ buf' = s
    /\ UNCHANGED <<lastlen, nstrlen, caller, entry>>

ReaderAfter(r) ==
    /\ pos' = r.pos
    /\ binbuf' = r.binbuf
    /\ textbuf' = r.textbuf
    /\ textbuf_completeseq' = r.textbuf_completeseq
    /\ decoder' = r.st

\* The caller has used lines(): only Lines::next is left (lib.rs:292).
InLines == caller = "lines"

\* read_to_end(buf) is entered (lib.rs:203-205) with the string the caller
\* has been appending to.
CallReadToEnd ==
    /\ pc = "idle" /\ ~InLines /\ Len(calls) < MaxCalls
    /\ entry' = buf
    /\ nstrlen' = Len(buf)
    /\ lastlen' = Len(buf)
    /\ pc' = "read_to_end"
    /\ UNCHANGED <<srcvars, readervars, buf, caller, calls>>

\* read_line(buf) is entered (lib.rs:246-248).
CallReadLine ==
    /\ pc = "idle" /\ ~InLines /\ Len(calls) < MaxCalls
    /\ entry' = buf
    /\ nstrlen' = Len(buf)
    /\ lastlen' = Len(buf)
    /\ pc' = "read_line"
    /\ UNCHANGED <<srcvars, readervars, buf, caller, calls>>

\* Lines::next is entered: a fresh String and read_line on it (lib.rs:306).
CallNext ==
    /\ pc = "idle" /\ Len(calls) < MaxCalls
    /\ caller' = "lines"
    /\ buf' = << >>
    /\ entry' = << >>
    /\ nstrlen' = 0
    /\ lastlen' = 0
    /\ pc' = "read_line"
    /\ UNCHANGED <<srcvars, readervars, calls>>

\* One turn of the loop of read_to_end (lib.rs:206-222).
ReadToEndStep ==
    /\ pc = "read_to_end"
    /\ \E rd \in Outcomes :
          LET x == DoRead(rd) IN
          /\ ReaderAfter(x.r)
          /\ SourceAfter(rd)
          /\ TrapAfter(x)
          /\ ResultAfter(x)
          /\ IF x.res.tag = "Panic" THEN Return("read_to_end", Panic, x.s)
             ELSE IF x.res.tag = "IOError" /\ x.res.msg = "Interrupted"
             THEN /\ buf' = x.s
                  /\ UNCHANGED <<pc, calls, lastlen, nstrlen, caller, entry>>
             ELSE IF x.res.tag # "Ok" THEN Return("read_to_end", x.res, x.s)
             ELSE IF Len(x.s) = lastlen
             THEN IF x.res.flag
                  THEN Return("read_to_end", Ok(byte_count(lastlen, nstrlen), TRUE), x.s)
                  ELSE Return("read_to_end", ErrCodec(ERR_INCOMPLETE_SEQ), x.s)
             ELSE /\ buf' = x.s
                  /\ lastlen' = Len(x.s)
                  /\ UNCHANGED <<pc, calls, nstrlen, caller, entry>>
    /\ UNCHANGED srcvars

\* One turn of the loop of read_line (lib.rs:249-285), and what Lines::next
\* does with the result when it is the caller (lib.rs:307-325).
ReadLineStep ==
    /\ pc = "read_line"
    /\ \E rd \in Outcomes :
          LET x == DoRead(rd)
              op == IF caller = "lines" THEN "next" ELSE "read_line"
              newlen == Len(x.s)
              n == memchr(LF, DropFront(x.s, lastlen))
          IN
          /\ SourceAfter(rd)
          /\ TrapAfter(x)
          /\ ResultAfter(x)
          /\ pos' = x.r.pos
          /\ binbuf' = x.r.binbuf
          /\ decoder' = x.r.st
          /\ IF x.res.tag = "Panic"
             THEN /\ textbuf' = x.r.textbuf
                  /\ textbuf_completeseq' = x.r.textbuf_completeseq
                  /\ Return(op, Panic, x.s)
             ELSE IF n >= 0
             THEN /\ IF line_end(lastlen, n) < newlen
                     THEN /\ textbuf' = DropFront(x.s, line_end(lastlen, n))
                          /\ textbuf_completeseq' = pending_flag(x.res)
                     ELSE /\ textbuf' = x.r.textbuf
                          /\ textbuf_completeseq' = x.r.textbuf_completeseq
                  /\ Return(op, Ok(byte_count(line_end(lastlen, n), nstrlen), TRUE),
                            SubSeq(x.s, 1, line_end(lastlen, n)))
             ELSE /\ textbuf' = x.r.textbuf
                  /\ textbuf_completeseq' = x.r.textbuf_completeseq
                  /\ IF x.res.tag = "IOError" /\ x.res.msg = "Interrupted"
                     THEN /\ buf' = x.s
                          /\ lastlen' = newlen
                          /\ UNCHANGED <<pc, calls, nstrlen, caller, entry>>
                     ELSE IF x.res.tag = "IOError" /\ x.res.msg = "UnexpectedEof"
                     THEN Return(op, Ok(byte_count(newlen, nstrlen), TRUE), x.s)
                     ELSE IF x.res.tag # "Ok" THEN Return(op, x.res, x.s)
                     ELSE IF lastlen = newlen
                     THEN Return(op, Ok(byte_count(newlen, nstrlen), TRUE), x.s)
                     ELSE /\ buf' = x.s
                          /\ lastlen' = newlen
                          /\ UNCHANGED <<pc, calls, nstrlen, caller, entry>>
    /\ UNCHANGED srcvars

Next ==
    \/ CallReadToEnd
    \/ CallReadLine
    \/ CallNext
    \/ ReadToEndStep
    \/ ReadLineStep

\* Every source: filling, splitting or failing.
Init == InitFill \/ InitSplit \/ InitFaulty

Spec == Init /\ [][Next]_vars
SpecFill == InitFill /\ [][Next]_vars
SpecSplit == InitSplit /\ [][Next]_vars
SpecFaulty == InitFaulty /\ [][Next]_vars
SpecAiueo == InitAiueo /\ [][Next]_vars

\* ------------------------------------------------------- reference notions
\* The decoder run once over a whole byte sequence: the text it decodes and
\* how it ends.
Whole(bytes) == raw_feed("S0", bytes, << >>)
Text(bytes) == Whole(bytes).out
Valid(bytes) == ~Whole(bytes).err.some /\ Whole(bytes).st = "S0"
Truncated(bytes) == ~Whole(bytes).err.some /\ Whole(bytes).st = "S1"
Invalid(bytes) == Whole(bytes).err.some

\* The text the finished calls appended, in call order.
RECURSIVE TextOf(_, _)
TextOf(cs, k) == IF k = 0 THEN << >> ELSE TextOf(cs, k - 1) \o cs[k].text
Delivered == TextOf(calls, Len(calls))

\* The bytes the source has not returned yet.
Unread == SubSeq(input, pos + 1, Len(input))

CallsAre(ops) == \A i \in 1..Len(calls) : calls[i].op \in ops
Last == calls[Len(calls)]
Returned == pc = "idle" /\ Len(calls) > 0

\* ---------------------------------------------------------------------- C1
\* C1: for every valid input and every split of it into read results,
\* read_to_end on a fresh reader succeeds and appends the text that the
\* whole input decodes to (what it appends when the source fills the read).
C1_ChunkBoundaryInvariance ==
    (Returned /\ Valid(input) /\ iofails = << >> /\ calls[1].op = "read_to_end")
        => (calls[1].res.tag = "Ok" /\ calls[1].text = Text(input))

\* ---------------------------------------------------------------------- C2
\* A text cut into its line-feed-terminated segments, followed by the
\* unterminated remainder when that is not empty.
FirstLF(t) ==
    IF \E i \in 1..Len(t) : t[i] = LF
    THEN CHOOSE i \in 1..Len(t) : t[i] = LF /\ \A j \in 1..(i - 1) : t[j] # LF
    ELSE 0

RECURSIVE Segments(_)
Segments(t) ==
    IF t = << >> THEN << >>
    ELSE IF FirstLF(t) = 0 THEN <<t>>
    ELSE <<SubSeq(t, 1, FirstLF(t))>> \o Segments(DropFront(t, FirstLF(t)))

\* The i-th piece read_line is to deliver: segment i, and nothing past the
\* last one.
Piece(t, i) == IF i <= Len(Segments(t)) THEN Segments(t)[i] ELSE << >>

OnlyInterrupted == iofails # << >> /\ \A i \in 1..Len(iofails) : iofails[i] = "Interrupted"

\* C2: when the source fails read attempts with Interrupted and otherwise
\* delivers the same bytes, read_to_end and read_line do not return the
\* Interrupted error and append the text, and return the count, they give
\* without the interruption: for a valid input the whole decoded text from
\* read_to_end and the first line from read_line.
C2_InterruptedTransparent ==
    (Returned /\ Len(calls) = 1 /\ Valid(input) /\ OnlyInterrupted
        /\ calls[1].op \in {"read_to_end", "read_line"})
        => LET expected == IF calls[1].op = "read_to_end"
                           THEN Text(input)
                           ELSE Piece(Text(input), 1)
           IN  /\ calls[1].res = Ok(Len(expected), TRUE)
               /\ calls[1].text = expected

C4_ReadLineSegments ==
    (pc = "idle" /\ Valid(input) /\ CallsAre({"read_line"}))
        => \A i \in 1..Len(calls) :
              /\ calls[i].text = Piece(Text(input), i)
              /\ calls[i].res = Ok(Len(Piece(Text(input), i)), TRUE)

\* Two terminated segments and no remainder: two lines delivered, then two
\* calls that return 0.
C4_Witness ==
    /\ pc = "idle" /\ Valid(input) /\ CallsAre({"read_line"})
    /\ Len(calls) = 4
    /\ Len(Segments(Text(input))) = 2
    /\ calls[1].text # << >> /\ calls[2].text # << >>
    /\ calls[2].text[Len(calls[2].text)] = LF
    /\ calls[3].res = Ok(0, TRUE) /\ calls[4].res = Ok(0, TRUE)

\* ---------------------------------------------------------------------- C5
\* The two-byte character whose lead byte is the last byte of the first
\* full chunk.
Straddles == Len(input) > CHUNK_SIZE /\ input[CHUNK_SIZE] = Lead

\* C5: when the source fills every request and a two-byte character of a
\* valid input straddles the end of the first chunk, read_to_end succeeds
\* and appends exactly the decoding of the input.
C5_StraddlingCharacter ==
    (Returned /\ Valid(input) /\ Straddles /\ calls[1].op = "read_to_end")
        => /\ calls[1].res = Ok(Len(Text(input)), TRUE)
           /\ calls[1].text = Text(input)

C5_Witness ==
    /\ Returned /\ Valid(input) /\ Straddles
    /\ calls[1].op = "read_to_end" /\ calls[1].res.tag = "Ok"
    /\ Len(calls[1].text) >= Len(Hiragana)

\* ---------------------------------------------------------------------- C6
\* C6: for an input that ends in the middle of a two-byte character (and is
\* valid before it), whatever way the source splits it: every read_to_end
\* returns CodecError("incomplete sequence"); every read_line returns
\* success, and once a read_line returns 0 after the source reported end of
\* input, the calls together have appended all the text decodable before
\* the truncated character.
C6_TruncatedInput ==
    (pc = "idle" /\ Truncated(input))
        => /\ \A i \in 1..Len(calls) :
                 /\ calls[i].op = "read_to_end" => calls[i].res = ErrCodec(ERR_INCOMPLETE_SEQ)
                 /\ calls[i].op = "read_line" => calls[i].res.tag = "Ok"
           /\ (CallsAre({"read_line"}) /\ Len(calls) > 0 /\ eof /\ Last.res.n = 0)
                 => Delivered = Text(input)

\* read_line calls that delivered the text before the truncated character
\* and then returned 0 at end of input, followed by a read_to_end that
\* returned the error.
C6_Witness ==
    /\ Returned /\ Truncated(input) /\ Len(calls) >= 3 /\ eof
    /\ \A i \in 1..(Len(calls) - 1) : calls[i].op = "read_line" /\ calls[i].res.tag = "Ok"
    /\ calls[Len(calls) - 1].res = Ok(0, TRUE)
    /\ TextOf(calls, Len(calls) - 1) = Text(input)
    /\ Text(input) # << >>
    /\ Last.op = "read_to_end" /\ Last.res = ErrCodec(ERR_INCOMPLETE_SEQ)

\* ---------------------------------------------------------------------- C7
\* The line-feed-terminated segments of a text.
Terminated(t) == {i \in 1..Len(Segments(t)) : Segments(t)[i][Len(Segments(t)[i])] = LF}

\* What the claim says of the calls made so far on an input with an invalid
\* byte sequence under the Strict trap; Text(input) is the text decoded
\* before the invalid sequence.
StrictOutcome ==
    /\ (Len(calls) > 0 /\ calls[1].op = "read_to_end")
          => (calls[1].res.tag = "CodecError" /\ calls[1].text = Text(input))
    /\ CallsAre({"read_line"})
          => \A i \in 1..Len(calls) :
                IF i \in Terminated(Text(input))
                THEN calls[i].res.tag = "Ok" /\ calls[i].text = Piece(Text(input), i)
                ELSE calls[i].res.tag = "CodecError" /\ TextOf(calls, i) = Text(input)

\* C7: with the Strict trap (which always declines) and an input holding an
\* invalid byte sequence anywhere in the chunk, read_to_end returns a
\* CodecError, read_line returns a CodecError once the lines before the
\* invalid sequence are delivered, and the text decoded before the invalid
\* sequence stays appended.
C7_StrictPropagates ==
    (pc \in {"idle", "panicked"} /\ trap = "Strict" /\ Invalid(input)) => StrictOutcome

\* The same without the runs in which a call panicked.
C7_ExceptPanic ==
    (pc = "idle" /\ trap = "Strict" /\ Invalid(input)) => StrictOutcome

\* ---------------------------------------------------------------------- C8
\* A segment without its terminator (LF, or CR LF).
EndsWith(t, tail) ==
    Len(t) >= Len(tail) /\ SubSeq(t, Len(t) - Len(tail) + 1, Len(t)) = tail

Unterminated(t) ==
    IF EndsWith(t, <<CR, LF>>) THEN SubSeq(t, 1, Len(t) - 2)
    ELSE IF EndsWith(t, <<LF>>) THEN SubSeq(t, 1, Len(t) - 1)
    ELSE t

ItemOf(res, t) ==
    IF res.tag # "Ok" THEN [tag |-> "SomeErr", text |-> << >>]
    ELSE IF t = << >> THEN [tag |-> "None", text |-> << >>]
    ELSE [tag |-> "SomeOk", text |-> Unterminated(t)]

\* C9: every Lines::next runs read_line on a fresh empty string and its
\* item is a function of that one result: Some(Err) for an error, after
\* which the iterator can be advanced again; None for success with empty
\* text; otherwise Some(Ok(t)) with one trailing LF removed and, only then,
\* one CR before it (a trailing CR without LF is kept).
C9_LinesNext ==
    /\ (caller = "lines" /\ pc # "panicked") => (entry = << >> /\ nstrlen = 0)
    /\ \A i \in 1..Len(calls) :
          (calls[i].op = "next" /\ calls[i].res.tag # "Panic")
              => calls[i].item = ItemOf(calls[i].res, calls[i].text)
    /\ (Returned /\ Last.op = "next" /\ Last.item.tag = "SomeErr"
          /\ Len(calls) < MaxCalls)
              => ENABLED CallNext

\* An error item followed by a success item whose text ends in a carriage
\* return that is kept.
C9_Witness ==
    /\ pc = "idle" /\ Len(calls) >= 2
    /\ \E i \in 1..Len(calls) : \E j \in (i + 1)..Len(calls) :
          /\ calls[i].op = "next" /\ calls[i].item.tag = "SomeErr"
          /\ calls[j].op = "next" /\ calls[j].item.tag = "SomeOk"
          /\ EndsWith(calls[j].text, <<CR>>)
          /\ calls[j].item.text = calls[j].text

\* --------------------------------------------------------------------- C10
\* C10: a read_line or read_to_end that succeeds returns the number of
\* bytes it appended to the caller's string, and what the string held at
\* entry is still its prefix, also when the string was not empty at entry
\* and when excess text went to the pending text.
C10_ReturnCount ==
    (Returned /\ Last.op \in {"read_line", "read_to_end"} /\ Last.res.tag = "Ok")
        => /\ Len(buf) = Len(entry) + Last.res.n
           /\ SubSeq(buf, 1, Len(entry)) = entry
           /\ Last.text = DropFront(buf, Len(entry))

\* A read_line on a non-empty string that cut its text at the line feed
\* and kept the rest as pending text.
C10_Witness ==
    /\ Returned /\ Last.op = "read_line" /\ Last.res.tag = "Ok"
    /\ Len(entry) > 0 /\ Last.res.n > 0 /\ Len(textbuf) > 0

\* --------------------------------------------------------------------- C11
\* The UTF-8 text of the five characters (lib.rs:341): 15 bytes.
aiueo_text ==
    <<227, 129, 130, 227, 129, 132, 227, 129, 134, 227, 129, 136, 227, 129, 138>>

AiueoReadToEnd == Returned /\ input = sjis_aiueo /\ calls[1].op = "read_to_end"

\* C11 as stated: for the 10-byte input 82 A0 82 A2 82 A4 82 A6 82 A8,
\* read_to_end appends the text of the five characters and returns 10, the
\* number of bytes consumed.
C11_ReturnsConsumedBytes ==
    AiueoReadToEnd => (calls[1].text = aiueo_text /\ calls[1].res = Ok(10, TRUE))

\* C11 as amended: read_to_end appends the text of the five characters and
\* returns 15, the number of UTF-8 bytes it appended.
C11_ReturnsAppendedBytes ==
    AiueoReadToEnd => (calls[1].text = aiueo_text /\ calls[1].res = Ok(15, TRUE))

C11_Witness ==
    /\ AiueoReadToEnd /\ Len(calls) = 1
    /\ buf = aiueo_text /\ calls[1].res.n = Len(buf)
    /\ pos = Len(sjis_aiueo) /\ eof

\* --------------------------------------------------------------------- C12
\* The last call told its caller that the stream has ended.
SignalsEnd ==
    /\ Returned
    /\ \/ Last.op = "read_to_end" /\ Last.res.tag = "Ok"
       \/ Last.op = "read_line" /\ Last.res = Ok(0, TRUE)

\* Nothing is left to decode but, at most, the lead byte of a character cut
\* off by the end of the input.
NothingLeft == textbuf = << >> /\ binbuf \in {<< >>, <<Lead>>}

\* C12: read_to_end returns success, and read_line returns a zero-length
\* success, only when the byte source has returned end of input and the
\* chunk buffer holds nothing but a dangling incomplete prefix: a step that
\* consumed bytes without producing text does not end the stream while
\* bytes remain.  (A source that has returned end of input has no byte
\* left to return; the formula asks for that much only.)
C12_EndOnlyAtEndOfInput ==
    (SignalsEnd /\ iofails = << >>) => (Unread = << >> /\ NothingLeft)

\* --------------------------------------------------------------------- C13
\* C13: read_to_end returns CodecError("incomplete sequence") only at the end
\* of the input, with the prefix of a truncated character left over: never
\* while the source still has bytes to deliver.
C13_IncompleteOnlyAtEnd ==
    (Returned /\ Last.op = "read_to_end" /\ Last.res = ErrCodec(ERR_INCOMPLETE_SEQ)
        /\ iofails = << >>)
        => (Unread = << >> /\ binbuf = <<Lead>>)

\* --------------------------------------------------------------------- C14
\* The chunk buffer is the last bytes the source returned, in source order.
TailOfDelivered == \E k \in 0..pos : binbuf = SubSeq(input, k + 1, pos)

\* C14: between operations the chunk buffer is a contiguous run, in source
\* order, of bytes the source returned and the decoder has not consumed; it
\* holds no fill padding, also after a read that failed with an I/O error.
C14_ChunkBufferFromSource ==
    pc = "idle" => TailOfDelivered

\* The same for the runs in which no read attempt has failed.
C14_WithoutIoError ==
    (pc = "idle" /\ iofails = << >>) => TailOfDelivered

\* --------------------------------------------------------------------- C15
\* C15: when the feed over the chunk buffer reports the consumed count c and
\* an error range ending at upto, the trap is given exactly the bytes
\* [c, upto) of the buffer that was fed, and when it recovers the chunk
\* buffer is left with the fed bytes from upto on; for c > 0 as for c = 0.
C15_TrapGetsErrorRange ==
    trapcall.some
        => /\ trapcall.arg = SubSeq(trapcall.fed, trapcall.offset + 1, trapcall.upto)
           /\ trapcall.recovered => trapcall.left = DropFront(trapcall.fed, trapcall.upto)

\* The same for the invocations that follow no consumed byte (c = 0).
C15_AtFrontOfChunk ==
    (trapcall.some /\ trapcall.offset = 0)
        => /\ trapcall.arg = SubSeq(trapcall.fed, 1, trapcall.upto)
           /\ trapcall.recovered => trapcall.left = DropFront(trapcall.fed, trapcall.upto)

\* The bytes dropped after a recovery are the error range, whatever c is.
C15_DropsErrorRange ==
    (trapcall.some /\ trapcall.recovered)
        => trapcall.left = DropFront(trapcall.fed, trapcall.upto)

\* --------------------------------------------------------------------- C16
\* C16: when the last step of a read_line call failed with an error other
\* than Interrupted or UnexpectedEof, the call returns that error, also when
\* the text the step appended before failing contains a line feed.
Propagated ==
    \/ result.tag = "CodecError"
    \/ result.tag = "IOError" /\ result.msg \notin {"Interrupted", "UnexpectedEof"}

C16_ReadLinePropagates ==
    (Returned /\ Last.op \in {"read_line", "next"} /\ Propagated) => Last.res = result

\* The same when the failed step appended no line feed.
C16_WithoutLineFeed ==
    (Returned /\ Last.op \in {"read_line", "next"} /\ Propagated /\ memchr(LF, Last.text) < 0)
        => Last.res = result

\* --------------------------------------------------------------------- C17
\* A step is about to run while pending text is held.
DrainDue == pc \in {"read_to_end", "read_line"} /\ textbuf # << >>

\* What read_line holds back of the text t a step appended (lib.rs:252-261).
HeldBack(t) == IF memchr(LF, t) >= 0 THEN DropFront(t, memchr(LF, t) + 1) ELSE << >>

\* C17: a step that finds pending text appends all of it to the output and
\* returns the stored flag, without reading from the source and without
\* calling the decoder (chunk buffer, source position and decoder state are
\* unchanged); it leaves the pending text empty and the flag reset to
\* complete, unless read_line holds back again what follows a line feed in
\* the text just appended.  Hence a step that reads or decodes finds the
\* pending text empty.
C17_PendingDrain ==
    [][DrainDue =>
          /\ drained' = textbuf
          /\ result' = Ok(0, textbuf_completeseq)
          /\ UNCHANGED <<binbuf, pos, decoder, eof, iofails, trapcall>>
          /\ \/ textbuf' = << >> /\ textbuf_completeseq' = TRUE /\ buf' = buf \o textbuf
             \/ /\ pc = "read_line" /\ textbuf' # << >>
                /\ textbuf' = HeldBack(textbuf)
                /\ buf' \o textbuf' = buf \o textbuf]_vars

\* Pending text has been handed out by the last step, the chunk buffer
\* still holding bytes.
C17_Witness == drained # << >> /\ textbuf = << >> /\ binbuf # << >>

\* The same with the text held back again by read_line.
C17_WitnessHeldBack == drained # << >> /\ textbuf # << >>

\* --------------------------------------------------------------------- C18
\* read_line has just returned holding text back: pending text at the return
\* of read_line is what the last step's text had after the line feed, since
\* every step starts by handing out what was pending before.
HoldsBack == Returned /\ Last.op \in {"read_line", "next"} /\ textbuf # << >>

\* C18: when read_line holds text back, the pending flag is "incomplete"
\* (textbuf_completeseq = FALSE) exactly when the step that produced the
\* text returned Ok(false), and "complete" in every other case.
C18_PendingFlag ==
    HoldsBack => (textbuf_completeseq = FALSE <=> (result.tag = "Ok" /\ ~result.flag))

\* What the code does instead: the flag stored is always "incomplete".
C18_AlwaysIncomplete == HoldsBack => textbuf_completeseq = FALSE

\* --------------------------------------------------------------------- C19
\* C19: no step aborts the program: whatever the decoder reports, the
\* slices of the chunk buffer are within its bounds and the assertions hold,
\* so read_to_end and read_line always return a Result.
C19_NeverPanics == pc # "panicked"

\* --------------------------------------------------------------------- C20
\* Lines::next is entered (lib.rs:306) by a caller that has already taken
\* MaxCalls items and goes on advancing the iterator: the oldest record of
\* the history is dropped, so that the iterator can be advanced for ever.
CallNextAgain ==
    /\ pc = "idle" /\ InLines /\ Len(calls) = MaxCalls
    /\ calls' = Tail(calls)
    /\ buf' = << >>
    /\ entry' = << >>
    /\ nstrlen' = 0
    /\ lastlen' = 0
    /\ pc' = "read_line"
    /\ UNCHANGED <<srcvars, readervars, caller>>

NextLines == Next \/ CallNextAgain

\* The inputs the iterator is advanced over without end: lines of two-byte
\* characters, whole, cut short or with the second byte alone.
LinesBytes == {LF, Lead, Trail}

InitLines ==
    /\ InitFill
    /\ Len(input) <= MaxLinesLen
    /\ \A i \in 1..Len(input) : input[i] \in LinesBytes

\* A call that has been entered runs on (the loops of lib.rs:206, 249), and
\* the caller of lines() advances the iterator again and again; the source
\* fills every read and reports the end of the input after its last byte.
SpecLines ==
    /\ InitLines
    /\ [][NextLines]_vars
    /\ WF_vars(ReadToEndStep)
    /\ WF_vars(ReadLineStep)
    /\ WF_vars(InLines /\ (CallNext \/ CallNextAgain))

\* Lines::next has returned None.
LinesEnded == Returned /\ Last.op = "next" /\ Last.item.tag = "None"

\* C20: once the Lines iterator is in use, advancing it again and again
\* eventually returns None, whatever the trap (a panic of the step aside).
C20_LinesEventuallyEnd == InLines ~> (LinesEnded \/ pc = "panicked")

\* The same for the traps that recover.
C20_RecoveringTrap == (InLines /\ trap_ok(trap)) ~> (LinesEnded \/ pc = "panicked")

====
